---- MODULE Spec2Model ----
(***************************************************************************)
(* Model of graph.cpp: createGraph builds a graph of State and Branch      *)
(* objects from a StateToBranchedStates map, findPaths enumerates the      *)
(* paths from the "start" state to the states without branches with a      *)
(* recursive depth-first search (findPathsImpl) over a ParsePath.          *)
(*                                                                         *)
(* A State object is identified by its name (createGraph makes one State   *)
(* per key).  A Branch object is identified by the State that owns it and  *)
(* its position in that State's m_branches (createGraph makes one Branch   *)
(* per successor entry), so two branches of one state to the same target   *)
(* are different objects, as two make_shared<Branch> results are.          *)
(* The recursion of findPathsImpl is the variable stack, one frame per     *)
(* active call.  The variable declared is the braced list that initializes *)
(* the map ParseGraph, graph is the map made from it.                      *)
(***************************************************************************)
EXTENDS Integers, Sequences, FiniteSets, TLC

VARIABLES declared, graph, pc, startState, namesToStates, paths, currentPath, stack, cerr, cout

vars == <<declared, graph, pc, startState, namesToStates, paths, currentPath, stack, cerr, cout>>

(***************************************************************************)
(* Bounds of the model.                                                    *)
(***************************************************************************)
\* number of names a generated specification may use as keys and successors
MaxStates == 3
\* total number of successor entries of a generated specification
MaxEdges == 3
\* number of findPathsImpl activations the call stack holds
StackLimit == 9

NamePool == <<"start", "a", "b", "c", "d">>

Names == {NamePool[i] : i \in 1..MaxStates}

Range(s) == {s[i] : i \in DOMAIN s}

(***************************************************************************)
(* The adjacency specifications of the source, and the dead-loop scenario. *)
(***************************************************************************)
ParseGraph ==
    ("start" :> <<"start_loop", "s1">>) @@
    ("start_loop" :> <<"loop_1", "s1">>) @@
    ("loop_1" :> <<"loop_2">>) @@
    ("loop_2" :> <<"start_loop", "accept">>) @@
    ("s1" :> <<"accept">>) @@
    ("accept" :> <<>>)

DeadLoopGraph ==
    ("start" :> <<"start_loop", "s1">>) @@
    ("start_loop" :> <<"loop_1">>) @@
    ("loop_1" :> <<"loop_2">>) @@
    ("loop_2" :> <<"start_loop">>) @@
    ("s1" :> <<"accept">>) @@
    ("accept" :> <<>>)

CrossingLoopsGraph ==
    ("start" :> <<"s1", "s2">>) @@
    ("s1" :> <<"s3">>) @@
    ("s2" :> <<"s3">>) @@
    ("s3" :> <<"s1", "s2", "accept">>) @@
    ("accept" :> <<>>)

ClosedLoopGraph ==
    ("start" :> <<"loop_a">>) @@
    ("loop_a" :> <<"loop_b">>) @@
    ("loop_b" :> <<"loop_a">>)

(***************************************************************************)
(* A specification with a self-loop, two branches to one target and a      *)
(* cycle, all reachable from "start".                                      *)
(***************************************************************************)
MixedGraph ==
    ("start" :> <<"start", "a", "a">>) @@
    ("a" :> <<"start", "b">>) @@
    ("b" :> <<>>)

FixedSpecs == {ParseGraph, DeadLoopGraph, CrossingLoopsGraph, ClosedLoopGraph, MixedGraph}

(***************************************************************************)
(* The generated specifications: every map from a subset of Names to       *)
(* lists over Names with at most MaxEdges successor entries in total.      *)
(* A successor that is not a key is an unresolved reference.  A            *)
(* specification is given by the length of the list of each key and by     *)
(* the successor entries of all the lists, one list after the other.       *)
(***************************************************************************)
NameIndex(n) == CHOOSE i \in DOMAIN NamePool : NamePool[i] = n

RECURSIVE SumOver(_, _)
SumOver(lens, K) ==
    IF K = {} THEN 0
    ELSE LET k == CHOOSE x \in K : TRUE IN lens[k] + SumOver(lens, K \ {k})

Total(lens) == SumOver(lens, DOMAIN lens)

Offset(lens, k) == SumOver(lens, {j \in DOMAIN lens : NameIndex(j) < NameIndex(k)})

SpecOf(lens, targets) ==
    [k \in DOMAIN lens |-> [i \in 1..lens[k] |-> targets[Offset(lens, k) + i]]]

IsGeneratedSpec(g) ==
    \E K \in SUBSET Names : \E lens \in [K -> 0..MaxEdges] :
        /\ Total(lens) <= MaxEdges
        /\ \E targets \in [1..Total(lens) -> Names] : g = SpecOf(lens, targets)

(***************************************************************************)
(* State, Branch, ParsePath::Element                                       *)
(***************************************************************************)
\* the null shared_ptr<State>
NullState == ""

\* the null shared_ptr<Branch> of a new Element
NullBranch == [owner |-> "", idx |-> 0, m_nextState |-> ""]

State(name) == [m_name |-> name, m_branches |-> <<>>]

\* the idx-th Branch object made for the State owner
Branch(owner, idx, state) == [owner |-> owner, idx |-> idx, m_nextState |-> state]

Element(state) == [m_state |-> state, m_branch |-> NullBranch]

(***************************************************************************)
(* createGraph                                                             *)
(***************************************************************************)
\* the orders in which a range-for may go through the keys of the map
IterationOrders(g) ==
    {o \in [1..Cardinality(DOMAIN g) -> DOMAIN g] : \A i, j \in DOMAIN o : o[i] = o[j] => i = j}

\* a line written to std::cerr: the kind of the report, the name it starts
\* with (build errors) and the path it prints (loop reports)
Message(kind, name, path) == [kind |-> kind, name |-> name, path |-> path]

NoError == Message("none", "", <<>>)

\* first loop: one State per key, an error if a name is already there
RECURSIVE createStates(_, _)
createStates(order, nts) ==
    IF order = <<>> THEN [err |-> NoError, nts |-> nts]
    ELSE LET stateName == Head(order)
         IN IF stateName \in DOMAIN nts
            THEN [err |-> Message("DuplicateState", stateName, <<>>), nts |-> nts]
            ELSE createStates(Tail(order), nts @@ (stateName :> State(stateName)))

\* variant: a new Branch goes to the front of m_branches
RECURSIVE linkBranches_Prepend(_, _, _, _)
linkBranches_Prepend(nts, stateName, succs, i) ==
    IF i > Len(succs) THEN [err |-> NoError, nts |-> nts]
    ELSE IF succs[i] \notin DOMAIN nts
         THEN [err |-> Message("UnresolvedReference", succs[i], <<>>), nts |-> nts]
         ELSE linkBranches_Prepend(
                 [nts EXCEPT ![stateName].m_branches =
                     <<Branch(stateName, Len(@) + 1, succs[i])>> \o @],
                 stateName, succs, i + 1)

\* variant: a successor name without a State is skipped
RECURSIVE linkBranches_SkipUnresolved(_, _, _, _)
linkBranches_SkipUnresolved(nts, stateName, succs, i) ==
    IF i > Len(succs) THEN [err |-> NoError, nts |-> nts]
    ELSE IF succs[i] \notin DOMAIN nts
         THEN linkBranches_SkipUnresolved(nts, stateName, succs, i + 1)
         ELSE linkBranches_SkipUnresolved(
                 [nts EXCEPT ![stateName].m_branches =
                     Append(@, Branch(stateName, Len(@) + 1, succs[i]))],
                 stateName, succs, i + 1)

\* inner loop of the second loop: one Branch per successor name, in order
RECURSIVE linkBranches(_, _, _, _)
linkBranches(nts, stateName, succs, i) ==
    IF i > Len(succs) THEN [err |-> NoError, nts |-> nts]
    ELSE LET branchedStateName == succs[i]
         IN IF branchedStateName \notin DOMAIN nts
            THEN [err |-> Message("UnresolvedReference", branchedStateName, <<>>), nts |-> nts]
            ELSE linkBranches(
                    [nts EXCEPT ![stateName].m_branches =
                        Append(@, Branch(stateName, Len(@) + 1, branchedStateName))],
                    stateName, succs, i + 1)

\* second loop
RECURSIVE linkStates(_, _, _)
linkStates(g, order, nts) ==
    IF order = <<>> THEN [err |-> NoError, nts |-> nts]
    ELSE LET r == linkBranches(nts, Head(order), g[Head(order)], 1)
         IN IF r.err # NoError THEN r ELSE linkStates(g, Tail(order), r.nts)

NoGraph == [x \in {} |-> State("")]

Failure(err) == [state |-> NullState, nts |-> NoGraph, err |-> err]

\* variant: "start" is looked up before the branches are linked
createGraph_EntryFirst(g, order) ==
    LET p1 == createStates(order, NoGraph)
    IN IF p1.err # NoError THEN Failure(p1.err)
       ELSE IF "start" \notin DOMAIN p1.nts
            THEN Failure(Message("MissingEntryState", "start", <<>>))
            ELSE LET p2 == linkStates(g, order, p1.nts)
                 IN IF p2.err # NoError THEN Failure(p2.err)
                    ELSE [state |-> "start", nts |-> p2.nts, err |-> NoError]

\* createGraph(graph) when the map is iterated in the given order: the State
\* returned, the State objects it keeps alive, and what went to std::cerr
createGraph(g, order) ==
    LET p1 == createStates(order, NoGraph)
    IN IF p1.err # NoError THEN Failure(p1.err)
       ELSE LET p2 == linkStates(g, order, p1.nts)
            IN IF p2.err # NoError THEN Failure(p2.err)
               ELSE IF "start" \notin DOMAIN p2.nts
                    THEN Failure(Message("MissingEntryState", "start", <<>>))
                    ELSE [state |-> "start", nts |-> p2.nts, err |-> NoError]

(***************************************************************************)
(* ParsePath                                                               *)
(***************************************************************************)
pushState(elements, state) == Append(elements, Element(state))

\* defined on a non-empty path only (assert at the head of popState)
popState(elements) == SubSeq(elements, 1, Len(elements) - 1)

\* variant: the branch followed is not registered in the last element
followBranch_NoRecord(elements, branch) ==
    LET lastState == elements[Len(elements)].m_state
    IN IF branch.m_nextState = lastState
       THEN [followed |-> FALSE, elements |-> elements]
       ELSE IF \E i \in DOMAIN elements :
                   elements[i].m_state = lastState /\ elements[i].m_branch = branch
            THEN [followed |-> FALSE, elements |-> elements]
            ELSE [followed |-> TRUE, elements |-> elements]

\* variant: a branch is refused when its target state is already on the path
followBranch_ByState(elements, branch) ==
    LET lastState == elements[Len(elements)].m_state
    IN IF \E i \in DOMAIN elements : elements[i].m_state = branch.m_nextState
       THEN [followed |-> FALSE, elements |-> elements]
       ELSE [followed |-> TRUE,
             elements |-> [elements EXCEPT ![Len(elements)].m_branch = branch]]

\* variant: branches are compared by their target, not by identity
followBranch_ByTarget(elements, branch) ==
    LET lastState == elements[Len(elements)].m_state
    IN IF branch.m_nextState = lastState
       THEN [followed |-> FALSE, elements |-> elements]
       ELSE IF \E i \in DOMAIN elements :
                   /\ elements[i].m_state = lastState
                   /\ elements[i].m_branch.m_nextState = branch.m_nextState
            THEN [followed |-> FALSE, elements |-> elements]
            ELSE [followed |-> TRUE,
                  elements |-> [elements EXCEPT ![Len(elements)].m_branch = branch]]

\* variant: the branches already on the path are not looked at
followBranch_NoReuseCheck(elements, branch) ==
    LET lastState == elements[Len(elements)].m_state
    IN IF branch.m_nextState = lastState
       THEN [followed |-> FALSE, elements |-> elements]
       ELSE [followed |-> TRUE,
             elements |-> [elements EXCEPT ![Len(elements)].m_branch = branch]]

\* variant: a branch to the branching state itself is not refused
followBranch_NoSelfCheck(elements, branch) ==
    LET lastState == elements[Len(elements)].m_state
    IN IF \E i \in DOMAIN elements :
              elements[i].m_state = lastState /\ elements[i].m_branch = branch
       THEN [followed |-> FALSE, elements |-> elements]
       ELSE [followed |-> TRUE,
             elements |-> [elements EXCEPT ![Len(elements)].m_branch = branch]]

\* followBranch: the value returned and m_elements afterwards
followBranch(elements, branch) ==
    LET lastState == elements[Len(elements)].m_state
    IN IF branch.m_nextState = lastState
       THEN [followed |-> FALSE, elements |-> elements]
       ELSE IF \E i \in DOMAIN elements :
                   elements[i].m_state = lastState /\ elements[i].m_branch = branch
            THEN [followed |-> FALSE, elements |-> elements]
            ELSE [followed |-> TRUE,
                  elements |-> [elements EXCEPT ![Len(elements)].m_branch = branch]]

\* operator<<(stream, path): the names of the states of the path, in order,
\* each followed by "; "
PathNames(nts, elements) == [i \in DOMAIN elements |-> nts[elements[i].m_state].m_name]

(***************************************************************************)
(* main, findPaths, findPathsImpl                                          *)
(***************************************************************************)
Frame(state) == [state |-> state, at |-> "push", idx |-> 1, branchFollowed |-> FALSE]

Top == stack[Len(stack)]

SetTop(f) == [stack EXCEPT ![Len(stack)] = f]

\* the state at the call of main, but for declared and graph
Start ==
    /\ pc = "main"
    /\ startState = NullState
    /\ namesToStates = NoGraph
    /\ paths = <<>>
    /\ currentPath = <<>>
    /\ stack = <<>>
    /\ cerr = <<>>
    /\ cout = <<>>

\* a braced list without a repeated name for the map g
Listing(g) ==
    LET order == CHOOSE o \in IterationOrders(g) : TRUE
    IN [i \in DOMAIN order |-> <<order[i], g[order[i]]>>]

\* the maps the constructor of std::unordered_map may make from a braced
\* list: one entry per name; of the entries of a repeated name one is
\* inserted and the others are dropped
MapsOf(list) ==
    LET keys == {list[i][1] : i \in DOMAIN list}
    IN {g \in [keys -> {list[i][2] : i \in DOMAIN list}] :
           \A k \in keys : \E i \in DOMAIN list : list[i] = <<k, g[k]>>}

Init ==
    /\ \/ graph \in FixedSpecs
       \/ IsGeneratedSpec(graph)
    /\ declared = Listing(graph)
    /\ Start

\* the braced lists that declare one name twice: a generated specification
\* and a second entry for one of its names, MaxEdges successor entries in all
DuplicateInit ==
    /\ \E K \in SUBSET Names : \E lens \in [K -> 0..MaxEdges] :
          /\ Total(lens) <= MaxEdges
          /\ \E targets \in [1..Total(lens) -> Names] :
                \E k \in K : \E n \in 0..(MaxEdges - Total(lens)) : \E again \in [1..n -> Names] :
                    declared = Listing(SpecOf(lens, targets)) \o <<<<k, again>>>>
    /\ graph \in MapsOf(declared)
    /\ Start

\* variant: main goes on to findPaths whatever createGraph returned
BuildGraph_IgnoreFailure ==
    /\ pc = "main"
    /\ \E order \in IterationOrders(graph) :
          LET r == createGraph(graph, order)
          IN /\ startState' = r.state
             /\ namesToStates' = r.nts
             /\ cerr' = IF r.err = NoError THEN cerr ELSE Append(cerr, r.err)
             /\ pc' = "findPaths"
    /\ UNCHANGED <<declared, graph, paths, currentPath, stack, cout>>

\* main: auto startState = createGraph(ParseGraph); if (!startState) return 1;
BuildGraph ==
    /\ pc = "main"
    /\ \E order \in IterationOrders(graph) :
          LET r == createGraph(graph, order)
          IN /\ startState' = r.state
             /\ namesToStates' = r.nts
             /\ cerr' = IF r.err = NoError THEN cerr ELSE Append(cerr, r.err)
             /\ pc' = IF r.state = NullState THEN "exit1" ELSE "findPaths"
    /\ UNCHANGED <<declared, graph, paths, currentPath, stack, cout>>

\* findPaths: a new empty ParsePath and the first findPathsImpl call
FindPaths ==
    /\ pc = "findPaths"
    /\ currentPath' = <<>>
    /\ stack' = <<Frame(startState)>>
    /\ pc' = "findPathsImpl"
    /\ UNCHANGED <<declared, graph, startState, namesToStates, paths, cerr, cout>>

\* variant: the path is recorded as it was before pushState
Visit_RecordBeforePush ==
    /\ pc = "findPathsImpl"
    /\ Top.at = "push"
    /\ currentPath' = pushState(currentPath, Top.state)
    /\ IF namesToStates[Top.state].m_branches = <<>>
       THEN /\ paths' = Append(paths, currentPath)
            /\ stack' = SetTop([Top EXCEPT !.at = "pop"])
       ELSE /\ paths' = paths
            /\ stack' = SetTop([Top EXCEPT !.at = "loop"])
    /\ UNCHANGED <<declared, graph, pc, startState, namesToStates, cerr, cout>>

\* findPathsImpl, entry: pushState, and the path is recorded at a state
\* without branches
Visit ==
    /\ pc = "findPathsImpl"
    /\ Top.at = "push"
    /\ currentPath' = pushState(currentPath, Top.state)
    /\ IF namesToStates[Top.state].m_branches = <<>>
       THEN /\ paths' = Append(paths, currentPath')
            /\ stack' = SetTop([Top EXCEPT !.at = "pop"])
       ELSE /\ paths' = paths
            /\ stack' = SetTop([Top EXCEPT !.at = "loop"])
    /\ UNCHANGED <<declared, graph, pc, startState, namesToStates, cerr, cout>>

\* variant: branchFollowed is not set when a branch is followed
TryBranch_NoFlag ==
    /\ pc = "findPathsImpl"
    /\ Top.at = "loop"
    /\ Top.idx <= Len(namesToStates[Top.state].m_branches)
    /\ LET branch == namesToStates[Top.state].m_branches[Top.idx]
           r == followBranch(currentPath, branch)
       IN /\ currentPath' = r.elements
          /\ IF r.followed
             THEN IF Len(stack) >= StackLimit
                  THEN /\ pc' = "overflow"
                       /\ stack' = stack
                  ELSE /\ pc' = pc
                       /\ stack' = Append(SetTop([Top EXCEPT !.idx = @ + 1]),
                                          Frame(branch.m_nextState))
             ELSE /\ pc' = pc
                  /\ stack' = SetTop([Top EXCEPT !.idx = @ + 1])
    /\ UNCHANGED <<declared, graph, startState, namesToStates, paths, cerr, cout>>

\* variant: a branch of a state to itself is erased from m_branches when met
TryBranch_PruneSelfLoop ==
    /\ pc = "findPathsImpl"
    /\ Top.at = "loop"
    /\ Top.idx <= Len(namesToStates[Top.state].m_branches)
    /\ LET branches == namesToStates[Top.state].m_branches
           branch == branches[Top.idx]
           r == followBranch(currentPath, branch)
       IN /\ currentPath' = r.elements
          /\ IF r.followed
             THEN /\ namesToStates' = namesToStates
                  /\ IF Len(stack) >= StackLimit
                     THEN /\ pc' = "overflow"
                          /\ stack' = stack
                     ELSE /\ pc' = pc
                          /\ stack' = Append(
                                 SetTop([Top EXCEPT !.idx = @ + 1, !.branchFollowed = TRUE]),
                                 Frame(branch.m_nextState))
             ELSE IF branch.m_nextState = Top.state
                  THEN /\ pc' = pc
                       /\ stack' = stack
                       /\ namesToStates' = [namesToStates EXCEPT ![Top.state].m_branches =
                              SubSeq(branches, 1, Top.idx - 1) \o
                              SubSeq(branches, Top.idx + 1, Len(branches))]
                  ELSE /\ pc' = pc
                       /\ stack' = SetTop([Top EXCEPT !.idx = @ + 1])
                       /\ namesToStates' = namesToStates
    /\ UNCHANGED <<declared, graph, startState, paths, cerr, cout>>

\* findPathsImpl, one iteration of the loop over state->m_branches
TryBranch ==
    /\ pc = "findPathsImpl"
    /\ Top.at = "loop"
    /\ Top.idx <= Len(namesToStates[Top.state].m_branches)
    /\ LET branch == namesToStates[Top.state].m_branches[Top.idx]
           r == followBranch(currentPath, branch)
       IN /\ currentPath' = r.elements
          /\ IF r.followed
             THEN IF Len(stack) >= StackLimit
                  THEN /\ pc' = "overflow"
                       /\ stack' = stack
                  ELSE /\ pc' = pc
                       /\ stack' = Append(
                              SetTop([Top EXCEPT !.idx = @ + 1, !.branchFollowed = TRUE]),
                              Frame(branch.m_nextState))
             ELSE /\ pc' = pc
                  /\ stack' = SetTop([Top EXCEPT !.idx = @ + 1])
    /\ UNCHANGED <<declared, graph, startState, namesToStates, paths, cerr, cout>>

\* variant: the test of branchFollowed is inverted
EndLoop_Inverted ==
    /\ pc = "findPathsImpl"
    /\ Top.at = "loop"
    /\ Top.idx > Len(namesToStates[Top.state].m_branches)
    /\ cerr' = IF ~Top.branchFollowed THEN cerr
               ELSE Append(cerr, Message("Loop", "", PathNames(namesToStates, currentPath)))
    /\ stack' = SetTop([Top EXCEPT !.at = "pop"])
    /\ UNCHANGED <<declared, graph, pc, startState, namesToStates, paths, currentPath, cout>>

\* variant: the report of a loop ends the whole search
EndLoop_Abort ==
    /\ pc = "findPathsImpl"
    /\ Top.at = "loop"
    /\ Top.idx > Len(namesToStates[Top.state].m_branches)
    /\ IF Top.branchFollowed
       THEN /\ cerr' = cerr
            /\ stack' = SetTop([Top EXCEPT !.at = "pop"])
            /\ UNCHANGED <<pc, currentPath>>
       ELSE /\ cerr' = Append(cerr, Message("Loop", "", PathNames(namesToStates, currentPath)))
            /\ stack' = <<>>
            /\ currentPath' = <<>>
            /\ pc' = "output"
    /\ UNCHANGED <<declared, graph, startState, namesToStates, paths, cout>>

\* findPathsImpl, after the loop: the report of a loop without exit
EndLoop ==
    /\ pc = "findPathsImpl"
    /\ Top.at = "loop"
    /\ Top.idx > Len(namesToStates[Top.state].m_branches)
    /\ cerr' = IF Top.branchFollowed THEN cerr
               ELSE Append(cerr, Message("Loop", "", PathNames(namesToStates, currentPath)))
    /\ stack' = SetTop([Top EXCEPT !.at = "pop"])
    /\ UNCHANGED <<declared, graph, pc, startState, namesToStates, paths, currentPath, cout>>

\* variant: the call returns from a state without branches without popState
Return_NoPopAtTerminal ==
    /\ pc = "findPathsImpl"
    /\ Top.at = "pop"
    /\ IF currentPath = <<>>
       THEN /\ pc' = "abort"
            /\ UNCHANGED <<currentPath, stack>>
       ELSE /\ currentPath' = IF namesToStates[Top.state].m_branches = <<>>
                              THEN currentPath ELSE popState(currentPath)
            /\ stack' = SubSeq(stack, 1, Len(stack) - 1)
            /\ pc' = IF Len(stack) = 1 THEN "output" ELSE pc
    /\ UNCHANGED <<declared, graph, startState, namesToStates, paths, cerr, cout>>

\* findPathsImpl, exit: popState and the return to the caller
Return ==
    /\ pc = "findPathsImpl"
    /\ Top.at = "pop"
    /\ IF currentPath = <<>>
       THEN /\ pc' = "abort"
            /\ UNCHANGED <<currentPath, stack>>
       ELSE /\ currentPath' = popState(currentPath)
            /\ stack' = SubSeq(stack, 1, Len(stack) - 1)
            /\ pc' = IF Len(stack) = 1 THEN "output" ELSE pc
    /\ UNCHANGED <<declared, graph, startState, namesToStates, paths, cerr, cout>>

\* main: the paths found go to std::cout
Output ==
    /\ pc = "output"
    /\ cout' = [i \in DOMAIN paths |-> PathNames(namesToStates, paths[i])]
    /\ pc' = "done"
    /\ UNCHANGED <<declared, graph, startState, namesToStates, paths, currentPath, stack, cerr>>

Next == BuildGraph \/ FindPaths \/ Visit \/ TryBranch \/ EndLoop \/ Return \/ Output

Spec == Init /\ [][Next]_vars

\* the program runs on a single thread that is never suspended for ever
FairSpec == Spec /\ WF_vars(Next)

\* the program started with a map whose braced list repeats a name
DuplicateSpec == DuplicateInit /\ [][Next]_vars

(***************************************************************************)
(* Vocabulary of the properties                                            *)
(***************************************************************************)
\* findPaths has returned
Finished == pc \in {"output", "done"}

\* the loop reports written to std::cerr, in order
LoopReports == SelectSeq(cerr, LAMBDA m : m.kind = "Loop")

\* the paths of the result as lists of state names
ResultNames == [i \in DOMAIN paths |-> PathNames(namesToStates, paths[i])]

\* every path a property of paths speaks about: the result and the path
\* being built
PathsInPlay == Range(paths) \cup {currentPath}

\* the successor names of a specification that are not keys of it
UnresolvedNames(g) == UNION {Range(g[k]) : k \in DOMAIN g} \ DOMAIN g

(***************************************************************************)
(* C1: for the adjacency specification ParseGraph of the source, findPaths *)
(* returns exactly four paths, in this order: start, start_loop, loop_1,   *)
(* loop_2, start_loop, s1, accept; start, start_loop, loop_1, loop_2,      *)
(* accept; start, start_loop, s1, accept; start, s1, accept.               *)
(***************************************************************************)
C1_ParseGraphPaths ==
    (graph = ParseGraph /\ Finished) =>
        ResultNames = << <<"start", "start_loop", "loop_1", "loop_2", "start_loop", "s1", "accept">>,
                         <<"start", "start_loop", "loop_1", "loop_2", "accept">>,
                         <<"start", "start_loop", "s1", "accept">>,
                         <<"start", "s1", "accept">> >>

C1_Witness == graph = ParseGraph /\ pc = "done" /\ Len(paths) = 4 /\ Len(cout) = 4

(***************************************************************************)
(* C2: for start:[loop_a], loop_a:[loop_b], loop_b:[loop_a] the search     *)
(* returns no path and writes exactly one loop report.  As claimed, the    *)
(* report prints start, loop_a, loop_b (C2_Original); the code prints the  *)
(* path with the state reached again at its end: start, loop_a, loop_b,    *)
(* loop_a (C2_ClosedLoop).                                                 *)
(***************************************************************************)
C2_Original ==
    (graph = ClosedLoopGraph /\ Finished) =>
        /\ paths = <<>>
        /\ Len(LoopReports) = 1
        /\ LoopReports[1].path = <<"start", "loop_a", "loop_b">>

C2_ClosedLoop ==
    (graph = ClosedLoopGraph /\ Finished) =>
        /\ paths = <<>>
        /\ Len(LoopReports) = 1
        /\ LoopReports[1].path = <<"start", "loop_a", "loop_b", "loop_a">>

C2_Witness == graph = ClosedLoopGraph /\ pc = "done" /\ Len(cerr) = 1 /\ cout = <<>>

(***************************************************************************)
(* C3: for every graph, with cycles, self-loops and several branches       *)
(* between two states or not, a findPaths call returns: every              *)
(* findPathsImpl activation returns, the path is empty again, and the      *)
(* recursion neither exhausts the stack nor pops an empty path.            *)
(***************************************************************************)
C3_Termination ==
    /\ [](pc \notin {"overflow", "abort"})
    /\ (pc = "findPaths") ~> (pc = "output" /\ stack = <<>> /\ currentPath = <<>>)

\* the search of a graph with a self-loop, two branches to one target and a
\* cycle has returned, with paths found
C3_Witness ==
    /\ graph = MixedGraph
    /\ pc = "output"
    /\ stack = <<>>
    /\ currentPath = <<>>
    /\ Len(paths) >= 2

(***************************************************************************)
(* C4: in every path of the result, and in the path being built at every   *)
(* point of the search, no two elements with a chosen branch hold the same *)
(* (state, chosen branch) pair.                                            *)
(***************************************************************************)
BranchChosenOnce(p) ==
    \A i, j \in DOMAIN p :
        (i < j /\ p[i].m_branch # NullBranch /\ p[j].m_branch # NullBranch) =>
            ~(p[i].m_state = p[j].m_state /\ p[i].m_branch = p[j].m_branch)

C4_NoBranchTwice == \A p \in PathsInPlay : BranchChosenOnce(p)

\* a returned path that leaves one state twice, by two of its branches
C4_Witness ==
    \E p \in Range(paths) : \E i, j \in DOMAIN p :
        /\ i < j
        /\ p[i].m_state = p[j].m_state
        /\ p[i].m_branch # NullBranch
        /\ p[j].m_branch # NullBranch

(***************************************************************************)
(* C5: a branch to its own state is never followed: no path of the result, *)
(* no path being built and no reported path has one state in two           *)
(* consecutive positions, and no chosen branch targets the state of its    *)
(* element.                                                                *)
(***************************************************************************)
NoRepeatedName(names) == \A i \in 1..(Len(names) - 1) : names[i] # names[i + 1]

C5_NoSelfLoop ==
    /\ \A p \in PathsInPlay :
          /\ NoRepeatedName(PathNames(namesToStates, p))
          /\ \A i \in DOMAIN p : p[i].m_branch # NullBranch => p[i].m_branch.m_nextState # p[i].m_state
    /\ \A i \in DOMAIN LoopReports : NoRepeatedName(LoopReports[i].path)

\* a returned path through a state that has a branch to itself
C5_Witness ==
    /\ Finished
    /\ \E p \in Range(paths) : \E i \in DOMAIN p :
          \E b \in Range(namesToStates[p[i].m_state].m_branches) : b.m_nextState = p[i].m_state

(***************************************************************************)
(* C6: for every graph without a cycle among the states reachable from     *)
(* the entry state, the result holds every path from the entry state to a  *)
(* state without branches, each once.  A path is a ParsePath: the states   *)
(* with the branch chosen at each, so two branches of one state to the     *)
(* same target make two paths.                                             *)
(***************************************************************************)
Successors(nts, s) == {b.m_nextState : b \in Range(nts[s].m_branches)}

RECURSIVE ReachableFrom(_, _)
ReachableFrom(nts, S) ==
    LET T == S \cup UNION {Successors(nts, s) : s \in S}
    IN IF T = S THEN S ELSE ReachableFrom(nts, T)

Acyclic(nts, entry) ==
    \A s \in ReachableFrom(nts, {entry}) : s \notin ReachableFrom(nts, Successors(nts, s))

\* exhaustive enumeration of the paths from s to a state without branches
RECURSIVE AllPathsFrom(_, _)
AllPathsFrom(nts, s) ==
    IF nts[s].m_branches = <<>> THEN {<<Element(s)>>}
    ELSE UNION {{<<[m_state |-> s, m_branch |-> b]>> \o w : w \in AllPathsFrom(nts, b.m_nextState)} :
                   b \in Range(nts[s].m_branches)}

C6_DagComplete ==
    (Finished /\ Acyclic(namesToStates, startState)) =>
        /\ Range(paths) = AllPathsFrom(namesToStates, startState)
        /\ Cardinality(Range(paths)) = Len(paths)

\* an acyclic graph with three paths or more, two of them over the same states
C6_Witness ==
    /\ pc = "done"
    /\ Acyclic(namesToStates, startState)
    /\ Len(paths) >= 3
    /\ \E i, j \in DOMAIN paths : i # j /\ cout[i] = cout[j]

(***************************************************************************)
(* C7: createGraph on a specification with a successor name that is not a  *)
(* key always fails with the unresolved-reference error, naming such a     *)
(* successor, and returns no graph.                                        *)
(***************************************************************************)
C7_UnresolvedFails ==
    (pc # "main" /\ UnresolvedNames(graph) # {}) =>
        /\ pc = "exit1"
        /\ startState = NullState
        /\ namesToStates = NoGraph
        /\ Len(cerr) = 1
        /\ cerr[1].kind = "UnresolvedReference"
        /\ cerr[1].name \in UnresolvedNames(graph)

\* the failure on a specification that has "start" and other states
C7_Witness ==
    /\ pc = "exit1"
    /\ UnresolvedNames(graph) # {}
    /\ "start" \in DOMAIN graph
    /\ Cardinality(DOMAIN graph) >= 2

(***************************************************************************)
(* C8: createGraph on a specification without the key "start" always       *)
(* fails.  As claimed, the error is always the missing-entry-state error   *)
(* (C8_Original); in the code the unresolved-reference error comes first,  *)
(* so the error is the missing-entry-state error when every successor name *)
(* is a key and the unresolved-reference error otherwise (C8_NoStartFails).*)
(***************************************************************************)
C8_Original ==
    (pc # "main" /\ "start" \notin DOMAIN graph) =>
        /\ pc = "exit1"
        /\ startState = NullState
        /\ Len(cerr) = 1
        /\ cerr[1].kind = "MissingEntryState"

C8_NoStartFails ==
    (pc # "main" /\ "start" \notin DOMAIN graph) =>
        /\ pc = "exit1"
        /\ startState = NullState
        /\ namesToStates = NoGraph
        /\ Len(cerr) = 1
        /\ cerr[1].kind = IF UnresolvedNames(graph) = {} THEN "MissingEntryState"
                          ELSE "UnresolvedReference"

\* the missing-entry-state failure on a specification with states and branches
C8_Witness ==
    /\ pc = "exit1"
    /\ "start" \notin DOMAIN graph
    /\ \E k \in DOMAIN graph : graph[k] # <<>>
    /\ cerr = <<Message("MissingEntryState", "start", <<>>)>>

(***************************************************************************)
(* C9: a loop report never ends the search: the step that writes it        *)
(* leaves the result, the path and the callers as they are and goes on to  *)
(* the return of that one call, and a search that wrote reports returns    *)
(* every path the untried branches lead to, in the declared order of the   *)
(* branches.  On the dead-loop graph of the source there is exactly one    *)
(* report and the result is the one path start, s1, accept.                *)
(***************************************************************************)
\* the paths from state s that continue the chosen branches of prefix, in
\* the declared order of the branches, none taken twice, none to its own state
RECURSIVE PathsInOrder(_, _, _)
RECURSIVE PathsByBranch(_, _, _, _)
PathsInOrder(nts, prefix, s) ==
    IF nts[s].m_branches = <<>> THEN <<prefix \o <<Element(s)>>>>
    ELSE PathsByBranch(nts, prefix, s, 1)

PathsByBranch(nts, prefix, s, i) ==
    IF i > Len(nts[s].m_branches) THEN <<>>
    ELSE LET b == nts[s].m_branches[i]
             usable == b.m_nextState # s /\ \A k \in DOMAIN prefix : prefix[k].m_branch # b
         IN (IF usable
             THEN PathsInOrder(nts, prefix \o <<[m_state |-> s, m_branch |-> b]>>, b.m_nextState)
             ELSE <<>>) \o PathsByBranch(nts, prefix, s, i + 1)

C9_ReportNeverAborts ==
    /\ [][(pc = "findPathsImpl" /\ cerr' # cerr) =>
            /\ pc' = "findPathsImpl"
            /\ paths' = paths
            /\ currentPath' = currentPath
            /\ stack' = SetTop([Top EXCEPT !.at = "pop"])]_vars
    /\ []((Finished /\ LoopReports # <<>>) =>
            paths = PathsInOrder(namesToStates, <<>>, startState))
    /\ []((Finished /\ graph = DeadLoopGraph) =>
            /\ Len(LoopReports) = 1
            /\ ResultNames = << <<"start", "s1", "accept">> >>)

\* the dead-loop graph searched to the end: a path found after the report
C9_Witness ==
    /\ pc = "done"
    /\ graph = DeadLoopGraph
    /\ LoopReports = <<Message("Loop", "", <<"start", "start_loop", "loop_1", "loop_2", "start_loop">>)>>
    /\ Len(paths) = 1

(***************************************************************************)
(* C10: when the entry state has no branches the result is exactly one     *)
(* path, that path holds the entry state only, and no loop report is       *)
(* written.                                                                *)
(***************************************************************************)
C10_BranchlessEntry ==
    (Finished /\ namesToStates[startState].m_branches = <<>>) =>
        /\ paths = <<<<Element(startState)>>>>
        /\ ResultNames = << <<"start">> >>
        /\ LoopReports = <<>>

\* a graph with other states, some with branches, and a branchless entry
C10_Witness ==
    /\ pc = "done"
    /\ graph["start"] = <<>>
    /\ \E k \in DOMAIN graph : graph[k] # <<>>
    /\ cout = << <<"start">> >>

(***************************************************************************)
(* C11: for every graph whose states reachable from the entry state all    *)
(* have branches, the search returns no path and writes at least one loop  *)
(* report.                                                                 *)
(***************************************************************************)
NoBranchlessState(nts, entry) == \A s \in ReachableFrom(nts, {entry}) : nts[s].m_branches # <<>>

C11_ClosedCycles ==
    (Finished /\ NoBranchlessState(namesToStates, startState)) =>
        /\ paths = <<>>
        /\ Len(LoopReports) >= 1

\* a cycle over all three states, searched to the end
C11_Witness ==
    /\ pc = "done"
    /\ NoBranchlessState(namesToStates, startState)
    /\ Cardinality(ReachableFrom(namesToStates, {startState})) >= 3
    /\ cout = <<>>
    /\ Len(LoopReports) >= 1

(***************************************************************************)
(* C12: the result is in depth-first order by declared branch order: a     *)
(* path is appended at the step that reaches its branchless state; of two  *)
(* returned paths the earlier one takes the earlier declared successor of  *)
(* the specification at the first element where they differ; and the       *)
(* result is the declared-order enumeration of the graph, so two searches  *)
(* of one graph return the same list.                                      *)
(***************************************************************************)
\* the first position where two different paths differ
FirstDifference(p, q) ==
    CHOOSE k \in 1..Len(p) :
        /\ k > Len(q) \/ p[k] # q[k]
        /\ \A m \in 1..(k - 1) : m <= Len(q) /\ p[m] = q[m]

\* p[k] and q[k] leave one state, p[k] by the successor declared earlier
EarlierDeclared(p, q, k) ==
    /\ k <= Len(q)
    /\ p[k].m_state = q[k].m_state
    /\ p[k].m_branch.idx < q[k].m_branch.idx
    /\ p[k].m_branch.m_nextState = graph[p[k].m_state][p[k].m_branch.idx]
    /\ q[k].m_branch.m_nextState = graph[q[k].m_state][q[k].m_branch.idx]
    /\ p[k + 1].m_state = p[k].m_branch.m_nextState
    /\ q[k + 1].m_state = q[k].m_branch.m_nextState

C12_DeclaredOrder ==
    /\ [][paths' # paths =>
            /\ paths' = Append(paths, currentPath')
            /\ currentPath' = pushState(currentPath, Top.state)
            /\ graph[Top.state] = <<>>]_vars
    /\ [](Finished =>
            \A i, j \in DOMAIN paths :
                i < j => EarlierDeclared(paths[i], paths[j], FirstDifference(paths[i], paths[j])))
    /\ [](Finished => paths = PathsInOrder(namesToStates, <<>>, startState))

\* three paths or more that part at two different states
C12_Witness ==
    /\ pc = "done"
    /\ Len(paths) >= 3
    /\ \E i, j \in DOMAIN paths :
          /\ i + 1 < j
          /\ FirstDifference(paths[i], paths[i + 1]) # FirstDifference(paths[i + 1], paths[j])

(***************************************************************************)
(* C13: every failure of createGraph is final: when an error of the build  *)
(* is written, createGraph has returned the null State and no State        *)
(* object, main has returned 1, and no step of the search is ever taken.   *)
(***************************************************************************)
BuildErrors == SelectSeq(cerr, LAMBDA m : m.kind \in {"DuplicateState", "UnresolvedReference", "MissingEntryState"})

C13_FailureIsFinal ==
    /\ [](BuildErrors # <<>> =>
            /\ pc = "exit1"
            /\ startState = NullState
            /\ namesToStates = NoGraph
            /\ paths = <<>> /\ currentPath = <<>> /\ stack = <<>> /\ cout = <<>>
            /\ LoopReports = <<>>)
    /\ [](startState = NullState => pc \in {"main", "exit1"})
    /\ [][pc = "exit1" => UNCHANGED vars]_vars

\* a failed build of a specification that has states
C13_Witness ==
    /\ pc = "exit1"
    /\ graph # NoGraph
    /\ Len(BuildErrors) = 1
    /\ startState = NullState

(***************************************************************************)
(* C15: the visit of a state writes a loop report exactly when the state   *)
(* has branches and each of them is refused, as a branch to the state      *)
(* itself or as a branch already chosen at an earlier element of the path; *)
(* the report prints the current path, which ends with the visited state;  *)
(* no step of the visit of a state with branches adds to the result.       *)
(***************************************************************************)
Refused(elements, s, b) ==
    \/ b.m_nextState = s
    \/ \E i \in 1..(Len(elements) - 1) : elements[i].m_state = s /\ elements[i].m_branch = b

\* the loop of the visit on top of the stack is over
AfterLoop ==
    /\ pc = "findPathsImpl"
    /\ Top.at = "loop"
    /\ Top.idx > Len(namesToStates[Top.state].m_branches)

C15_ReportIffAllRefused ==
    /\ [][AfterLoop =>
            IF \A b \in Range(namesToStates[Top.state].m_branches) : Refused(currentPath, Top.state, b)
            THEN /\ cerr' = Append(cerr, Message("Loop", "", PathNames(namesToStates, currentPath)))
                 /\ cerr'[Len(cerr')].path[Len(currentPath)] = namesToStates[Top.state].m_name
                 /\ paths' = paths
            ELSE cerr' = cerr]_vars
    /\ [][(pc = "findPathsImpl" /\ cerr' # cerr) =>
            (AfterLoop /\ namesToStates[Top.state].m_branches # <<>>)]_vars
    /\ [][(pc = "findPathsImpl" /\ namesToStates[Top.state].m_branches # <<>>) =>
            paths' = paths]_vars

\* a report at a state whose branches are refused for both reasons
C15_Witness ==
    /\ pc = "findPathsImpl"
    /\ Top.at = "pop"
    /\ LoopReports # <<>>
    /\ LoopReports[Len(LoopReports)].path = PathNames(namesToStates, currentPath)
    /\ \E b \in Range(namesToStates[Top.state].m_branches) : b.m_nextState = Top.state
    /\ \E b \in Range(namesToStates[Top.state].m_branches) : b.m_nextState # Top.state

(***************************************************************************)
(* C16: every visit pops the state it pushed: the states of the path are   *)
(* at every point the states of the active visits, a return removes the    *)
(* state of the returning visit and leaves the path of the caller as it    *)
(* was at the call, popState is never called on an empty path, and the     *)
(* path is empty when findPaths returns.                                   *)
(***************************************************************************)
\* the visits that have pushed their state
PushedFrames == IF stack = <<>> THEN 0 ELSE IF Top.at = "push" THEN Len(stack) - 1 ELSE Len(stack)

StatesOf(elements) == [i \in DOMAIN elements |-> elements[i].m_state]

C16_PopsWhatItPushed ==
    /\ [](pc # "abort")
    /\ [](StatesOf(currentPath) = [i \in 1..PushedFrames |-> stack[i].state])
    /\ [][Len(stack') < Len(stack) =>
            /\ currentPath # <<>>
            /\ currentPath[Len(currentPath)].m_state = Top.state
            /\ StatesOf(currentPath') = [i \in 1..Len(stack') |-> stack[i].state]
            /\ stack' = SubSeq(stack, 1, Len(stack) - 1)]_vars
    /\ [](Finished => (currentPath = <<>> /\ stack = <<>>))

\* a return to a caller three visits deep, after a path was recorded
C16_Witness ==
    /\ pc = "findPathsImpl"
    /\ Len(stack) = 3
    /\ Top.at = "loop"
    /\ Top.idx > 1
    /\ Len(currentPath) = 3
    /\ paths # <<>>

(***************************************************************************)
(* C17: the depth of the recursion, the number of elements of the current  *)
(* path, is bounded by the number of (state, branch) pairs of the graph.   *)
(* As claimed the bound is that number (C17_Original); the state pushed    *)
(* last has no branch chosen yet, so the bound is that number plus one     *)
(* (C17_DepthBound).                                                       *)
(***************************************************************************)
NumBranches(nts) == SumOver([s \in DOMAIN nts |-> Len(nts[s].m_branches)], DOMAIN nts)

C17_Original == Len(currentPath) <= NumBranches(namesToStates)

C17_DepthBound ==
    /\ Len(currentPath) <= NumBranches(namesToStates) + 1
    /\ Len(stack) <= NumBranches(namesToStates) + 1

\* the bound is reached on a graph with branches
C17_Witness ==
    /\ pc = "findPathsImpl"
    /\ NumBranches(namesToStates) >= 3
    /\ Len(currentPath) = NumBranches(namesToStates) + 1

(***************************************************************************)
(* C18: the search never changes the graph: from the call of findPaths on  *)
(* no step changes the name of a State, its m_branches or the target of a  *)
(* Branch, and at every point the graph is the one createGraph built from  *)
(* the specification.                                                      *)
(***************************************************************************)
GraphAsBuilt(g) ==
    [k \in DOMAIN g |->
        [m_name |-> k,
         m_branches |-> [i \in DOMAIN g[k] |-> Branch(k, i, g[k][i])]]]

Searching == pc \in {"findPaths", "findPathsImpl", "output", "done"}

RECURSIVE WalksFrom(_, _, _)
WalksFrom(nts, s, used) ==
    IF nts[s].m_branches = <<>> THEN {<<Element(s)>>}
    ELSE UNION {{<<[m_state |-> s, m_branch |-> b]>> \o w :
                    w \in WalksFrom(nts, b.m_nextState, used \cup {b})} :
                b \in {x \in Range(nts[s].m_branches) : x.m_nextState # s /\ x \notin used}}

C19_ExactlyTheWalks ==
    Finished =>
        /\ Range(paths) = WalksFrom(namesToStates, startState, {})
        /\ Cardinality(Range(paths)) = Len(paths)

\* two returned paths over the same states, one state twice in them, that
\* differ in the branch taken between two states
C19_Witness ==
    /\ pc = "done"
    /\ \E i, j \in DOMAIN paths :
          /\ i # j
          /\ cout[i] = cout[j]
          /\ \E m, n \in DOMAIN paths[i] : m < n /\ paths[i][m].m_state = paths[i][n].m_state

(***************************************************************************)
(* C20: every returned path is a walk of the graph: it starts at the entry *)
(* state, each element but the last has a chosen branch that is one of the *)
(* branches of its state and targets the state of the next element, and    *)
(* the last element is a state without branches and has no chosen branch.  *)
(***************************************************************************)
WellFormed(p) ==
    /\ p # <<>>
    /\ p[1].m_state = startState
    /\ \A i \in 1..(Len(p) - 1) :
          /\ p[i].m_branch \in Range(namesToStates[p[i].m_state].m_branches)
          /\ p[i].m_branch.m_nextState = p[i + 1].m_state
    /\ namesToStates[p[Len(p)].m_state].m_branches = <<>>
    /\ p[Len(p)].m_branch = NullBranch

C20_PathsAreWalks == \A i \in DOMAIN paths : WellFormed(paths[i])

\* a returned path of five elements or more
C20_Witness == pc = "done" /\ \E i \in DOMAIN paths : Len(paths[i]) >= 5

(***************************************************************************)
(* C14: building from a specification that declares a state name twice     *)
(* always fails with the duplicate-state error, which names a repeated     *)
(* name; the second declaration is neither taken nor dropped in silence.   *)
(***************************************************************************)
RepeatedNames(list) == {list[i][1] : i \in {i \in DOMAIN list : \E j \in DOMAIN list : j # i /\ list[j][1] = list[i][1]}}

C14_DuplicateFails ==
    (pc # "main" /\ RepeatedNames(declared) # {}) =>
        /\ pc = "exit1"
        /\ startState = NullState
        /\ Len(cerr) = 1
        /\ cerr[1].kind = "DuplicateState"
        /\ cerr[1].name \in RepeatedNames(declared)

====
